---- MODULE Spec2Model ----
(***************************************************************************)
(* A model of jupyter-zeppelin.py: the conversion of a Zeppelin note       *)
(* (parsed JSON) to a Jupyter notebook and the writing of the notebook.    *)
(*                                                                         *)
(* Text is a sequence of one-character strings.  A Python dict is a        *)
(* function whose DOMAIN is the set of its keys, so that dict.get(k) and   *)
(* dict[k] (KeyError) are read off the DOMAIN.                             *)
(***************************************************************************)
EXTENDS Naturals, Sequences, FiniteSets, TLC

(***************************************************************************)
(* Bounds of the model.                                                    *)
(***************************************************************************)
MaxParagraphs == 3
MaxTextLen == 5
MaxTsvLen == 4
MaxHole == 3
MaxRows == 2

(***************************************************************************)
(* Characters.                                                             *)
(***************************************************************************)
\* what \s matches and what str.lstrip() strips (the ASCII part)
Whitespace == {" ", "\t", "\n", "\r", "\f"}

\* what \w matches (the ASCII part)
WordChars ==
  {"a","b","c","d","e","f","g","h","i","j","k","l","m",
   "n","o","p","q","r","s","t","u","v","w","x","y","z",
   "A","B","C","D","E","F","G","H","I","J","K","L","M",
   "N","O","P","Q","R","S","T","U","V","W","X","Y","Z",
   "0","1","2","3","4","5","6","7","8","9","_"}

Digits == <<"0","1","2","3","4","5","6","7","8","9">>

EmptyDict == <<>>

\* re.compile(tok + r'\s').match(s): tok at the start of s, then a whitespace
TokenThenSpace(s, tok) ==
  /\ Len(s) > Len(tok)
  /\ SubSeq(s, 1, Len(tok)) = tok
  /\ s[Len(tok) + 1] \in Whitespace

MD(s) == TokenThenSpace(s, <<"%","m","d">>)

SQL(s) == TokenThenSpace(s, <<"%","s","q","l">>)

HTML(s) == TokenThenSpace(s, <<"%","h","t","m","l">>)

\* re.compile(r'%\w+\s').match(s): '%', one or more word characters, a whitespace
UNKNOWN_MAGIC(s) ==
  /\ Len(s) >= 3
  /\ s[1] = "%"
  /\ \E n \in 2..(Len(s) - 1) :
       /\ \A j \in 2..n : s[j] \in WordChars
       /\ s[n + 1] \in Whitespace

\* str.lstrip(chars): drop the longest prefix made of characters of chars
RECURSIVE lstrip(_, _)
lstrip(s, chars) ==
  IF s # <<>> /\ s[1] \in chars THEN lstrip(Tail(s), chars) ELSE s

\* str.replace(c, by) for a one-character c
RECURSIVE replace(_, _, _)
replace(s, c, by) ==
  IF s = <<>> THEN <<>>
  ELSE (IF s[1] = c THEN by ELSE <<s[1]>>) \o replace(Tail(s), c, by)

\* html.escape(s) with quote=True: '&' first, then '<', '>', '"', "'"
html_escape(s) ==
  LET s1 == replace(s, "&", <<"&","a","m","p",";">>)
      s2 == replace(s1, "<", <<"&","l","t",";">>)
      s3 == replace(s2, ">", <<"&","g","t",";">>)
      s4 == replace(s3, "\"", <<"&","q","u","o","t",";">>)
  IN  replace(s4, "'", <<"&","#","x","2","7",";">>)

\* "".join(parts)
RECURSIVE concat(_)
concat(parts) ==
  IF parts = <<>> THEN <<>> ELSE parts[1] \o concat(Tail(parts))

\* sep.join(parts)
RECURSIVE join(_, _)
join(sep, parts) ==
  IF parts = <<>> THEN <<>>
  ELSE IF Len(parts) = 1 THEN parts[1]
  ELSE parts[1] \o sep \o join(sep, Tail(parts))

(***************************************************************************)
(* csv.reader(StringIO(tsv), delimiter="\t"): the excel dialect, with      *)
(* quotechar '"', doublequote, no escapechar, not strict.                  *)
(***************************************************************************)
EOL == "EOL"

\* iterating a StringIO: the lines of s, each with its terminating "\n"
RECURSIVE SplitLines(_, _, _)
SplitLines(s, i, cur) ==
  IF i > Len(s) THEN (IF cur = <<>> THEN <<>> ELSE <<cur>>)
  ELSE IF s[i] = "\n" THEN <<Append(cur, s[i])>> \o SplitLines(s, i + 1, <<>>)
  ELSE SplitLines(s, i + 1, Append(cur, s[i]))

\* parse_reset
ParseReset == [state |-> "START_RECORD", field |-> <<>>, fields |-> <<>>, error |-> FALSE]

\* parse_save_field
SaveField(p, next) ==
  [p EXCEPT !.fields = Append(@, p.field), !.field = <<>>, !.state = next]

AfterNewline(c) == IF c = EOL THEN "START_RECORD" ELSE "EAT_CRNL"

\* parse_process_char, from START_FIELD on (START_RECORD falls through to it)
StartField(p, c) ==
  IF c \in {"\n", "\r", EOL} THEN SaveField(p, AfterNewline(c))
  ELSE IF c = "\"" THEN [p EXCEPT !.state = "IN_QUOTED_FIELD"]
  ELSE IF c = "\t" THEN SaveField(p, "START_FIELD")
  ELSE [p EXCEPT !.field = Append(@, c), !.state = "IN_FIELD"]

\* parse_process_char
ProcessChar(p, c) ==
  CASE p.state = "START_RECORD" ->
         IF c = EOL THEN p
         ELSE IF c \in {"\n", "\r"} THEN [p EXCEPT !.state = "EAT_CRNL"]
         ELSE StartField(p, c)
    [] p.state = "START_FIELD" -> StartField(p, c)
    [] p.state = "IN_FIELD" ->
         IF c \in {"\n", "\r", EOL} THEN SaveField(p, AfterNewline(c))
         ELSE IF c = "\t" THEN SaveField(p, "START_FIELD")
         ELSE [p EXCEPT !.field = Append(@, c)]
    [] p.state = "IN_QUOTED_FIELD" ->
         IF c = EOL THEN p
         ELSE IF c = "\"" THEN [p EXCEPT !.state = "QUOTE_IN_QUOTED_FIELD"]
         ELSE [p EXCEPT !.field = Append(@, c)]
    [] p.state = "QUOTE_IN_QUOTED_FIELD" ->
         IF c = "\"" THEN [p EXCEPT !.field = Append(@, c), !.state = "IN_QUOTED_FIELD"]
         ELSE IF c = "\t" THEN SaveField(p, "START_FIELD")
         ELSE IF c \in {"\n", "\r", EOL} THEN SaveField(p, AfterNewline(c))
         ELSE [p EXCEPT !.field = Append(@, c), !.state = "IN_FIELD"]
    [] p.state = "EAT_CRNL" ->
         IF c \in {"\n", "\r"} THEN p
         ELSE IF c = EOL THEN [p EXCEPT !.state = "START_RECORD"]
         ELSE [p EXCEPT !.error = TRUE]

\* the characters of one line, then EOL
RECURSIVE ProcessLine(_, _, _)
ProcessLine(p, line, i) ==
  IF p.error THEN p
  ELSE IF i > Len(line) THEN ProcessChar(p, EOL)
  ELSE ProcessLine(ProcessChar(p, line[i]), line, i + 1)

\* Reader_iternext, repeated to the end of the input: the rows read, and
\* whether csv.Error was raised on the way
RECURSIVE ReadRows(_, _, _, _)
ReadRows(lines, i, p, rows) ==
  IF i > Len(lines) THEN
    IF Len(p.field) # 0 \/ p.state = "IN_QUOTED_FIELD"
      THEN [rows |-> Append(rows, SaveField(p, p.state).fields), error |-> FALSE]
      ELSE [rows |-> rows, error |-> FALSE]
  ELSE
    LET q == ProcessLine(p, lines[i], 1) IN
    IF q.error THEN [rows |-> rows, error |-> TRUE]
    ELSE IF q.state = "START_RECORD"
      THEN ReadRows(lines, i + 1, ParseReset, Append(rows, q.fields))
      ELSE ReadRows(lines, i + 1, q, rows)

csv_reader(tsv) == ReadRows(SplitLines(tsv, 1, <<>>), 1, ParseReset, <<>>)

(***************************************************************************)
(* table_cell_to_html and table_to_html                                    *)
(***************************************************************************)
\* table_cell_to_html, were the cell left-stripped before the match
table_cell_to_html_stripped(cell) ==
  IF HTML(lstrip(cell, Whitespace)) THEN cell ELSE html_escape(cell)

table_cell_to_html(cell) ==
  IF HTML(cell) THEN cell ELSE html_escape(cell)

TH(name) == <<"<","t","h",">">> \o name \o <<"<","/","t","h",">">>

TD(cell) == <<"<","t","d",">">> \o table_cell_to_html(cell) \o <<"<","/","t","d",">">>

TR(inner) == <<"<","t","r",">">> \o inner \o <<"<","/","t","r",">">>

TableOpen == <<"<","t","a","b","l","e",">">>

TableClose == <<"<","/","t","a","b","l","e",">">>

\* "<tr>" + "".join([ "<td>" + table_cell_to_html(cell) + "</td>" for cell in row ]) + "</tr>"
BodyLine(row) == TR(concat([k \in 1..Len(row) |-> TD(row[k])]))

\* TableLines, were the last record left out
TableLines_dropLast(rows) ==
  <<TableOpen, TR(concat([k \in 1..Len(rows[1]) |-> TH(rows[1][k])]))>>
    \o [r \in 1..(Len(rows) - 2) |-> BodyLine(rows[r + 1])]
    \o <<TableClose>>

\* the lines list: "<table>", the header row, one row for each further record
\* of the reader, "</table>"
TableLines(rows) ==
  <<TableOpen, TR(concat([k \in 1..Len(rows[1]) |-> TH(rows[1][k])]))>>
    \o [r \in 1..(Len(rows) - 1) |-> BodyLine(rows[r + 1])]
    \o <<TableClose>>

\* table_to_html once the reader is made: next(reader) raises StopIteration
\* when there is no first record, and the reader raises csv.Error
TableOfReader(reader) ==
  IF reader.rows = <<>> THEN
    [raised |-> IF reader.error THEN "csv.Error" ELSE "StopIteration", value |-> <<>>]
  ELSE IF reader.error THEN [raised |-> "csv.Error", value |-> <<>>]
  ELSE [raised |-> "none", value |-> join(<<"\n">>, TableLines(reader.rows))]

\* the result of table_to_html: [raised |-> "none", value |-> html], or the
\* exception that leaves it
table_to_html(tsv) == TableOfReader(csv_reader(tsv))

(***************************************************************************)
(* convert_parsed, one paragraph at a time                                 *)
(***************************************************************************)
\* Truthy, were an empty value taken for a value
Truthy_keyOnly(dict, key) == key \in DOMAIN dict

\* dict.get(key): whether it yields a truthy value (key present, value not empty)
Truthy(dict, key) == key \in DOMAIN dict /\ dict[key] # <<>>

\* ClassifyCell, were the unknown magic tested before %sql and %html
ClassifyCell_rawFirst(code, index) ==
  IF MD(code) THEN
    [cell_type |-> "markdown",
     metadata |-> EmptyDict,
     source |-> lstrip(lstrip(code, {"%", "m", "d"}), {"\n"})]
  ELSE IF UNKNOWN_MAGIC(code) THEN
    [cell_type |-> "raw",
     metadata |-> [format |-> "text/plain"],
     source |-> code]
  ELSE IF SQL(code) \/ HTML(code) THEN
    [cell_type |-> "code",
     execution_count |-> index,
     metadata |-> EmptyDict,
     outputs |-> <<>>,
     source |-> <<"%">> \o code]
  ELSE
    [cell_type |-> "code",
     execution_count |-> index,
     metadata |-> [autoscroll |-> "auto"],
     outputs |-> <<>>,
     source |-> code]

\* the cell built for the left-stripped text code (the if/elif chain)
ClassifyCell(code, index) ==
  IF MD(code) THEN
    [cell_type |-> "markdown",
     metadata |-> EmptyDict,
     source |-> lstrip(lstrip(code, {"%", "m", "d"}), {"\n"})]
  ELSE IF SQL(code) \/ HTML(code) THEN
    [cell_type |-> "code",
     execution_count |-> index,
     metadata |-> EmptyDict,
     outputs |-> <<>>,
     source |-> <<"%">> \o code]
  ELSE IF UNKNOWN_MAGIC(code) THEN
    [cell_type |-> "raw",
     metadata |-> [format |-> "text/plain"],
     source |-> code]
  ELSE
    [cell_type |-> "code",
     execution_count |-> index,
     metadata |-> [autoscroll |-> "auto"],
     outputs |-> <<>>,
     source |-> code]

\* TablePayload, were the exception of table_to_html swallowed
TablePayload_swallow(t) == [raised |-> "none", data |-> ("text/html" :> t.value)]

\* output_by_mime_type['text/html'] = table_to_html(result['msg'])
TablePayload(t) ==
  IF t.raised # "none" THEN [raised |-> t.raised, data |-> EmptyDict]
  ELSE [raised |-> "none", data |-> ("text/html" :> t.value)]

\* OutputByMimeType, were the keys of TEXT and HTML exchanged
OutputByMimeType_swapped(result) ==
  LET result_type == IF "type" \in DOMAIN result THEN result.type ELSE "None" IN
  IF result_type \in {"TEXT", "HTML", "TABLE"} /\ "msg" \notin DOMAIN result
    THEN [raised |-> "KeyError", data |-> EmptyDict]
  ELSE IF result_type = "TEXT"
    THEN [raised |-> "none", data |-> ("text/html" :> result.msg)]
  ELSE IF result_type = "HTML"
    THEN [raised |-> "none", data |-> ("text/plain" :> result.msg)]
  ELSE IF result_type = "TABLE"
    THEN TablePayload(table_to_html(result.msg))
  ELSE [raised |-> "none", data |-> EmptyDict]

\* output_by_mime_type for a successful result: [raised, data]
OutputByMimeType(result) ==
  LET result_type == IF "type" \in DOMAIN result THEN result.type ELSE "None" IN
  IF result_type \in {"TEXT", "HTML", "TABLE"} /\ "msg" \notin DOMAIN result
    THEN [raised |-> "KeyError", data |-> EmptyDict]
  ELSE IF result_type = "TEXT"
    THEN [raised |-> "none", data |-> ("text/plain" :> result.msg)]
  ELSE IF result_type = "HTML"
    THEN [raised |-> "none", data |-> ("text/html" :> result.msg)]
  ELSE IF result_type = "TABLE"
    THEN TablePayload(table_to_html(result.msg))
  ELSE [raised |-> "none", data |-> EmptyDict]

\* cell['outputs'] = [...], unless building output_by_mime_type raised
SetOutputs(cell, o, index) ==
  IF o.raised # "none" THEN [raised |-> o.raised, cell |-> cell]
  ELSE [raised |-> "none",
        cell |-> [cell EXCEPT !.outputs =
                    <<[output_type |-> "execute_result",
                       metadata |-> EmptyDict,
                       execution_count |-> index,
                       data |-> o.data]>>]]

\* the cell after the result of its paragraph was looked at: [raised, cell]
AttachResult(cell, paragraph, index) ==
  IF cell.cell_type = "code" /\ Truthy(paragraph, "result") THEN
    LET result == paragraph.result IN
    IF "code" \notin DOMAIN result THEN [raised |-> "KeyError", cell |-> cell]
    ELSE IF result.code = "SUCCESS" THEN
      SetOutputs(cell, OutputByMimeType(result), index)
    ELSE [raised |-> "none", cell |-> cell]
  ELSE [raised |-> "none", cell |-> cell]

\* IndexAfter, were the index kept for the code cells alone
IndexAfter_codeOnly(index, cell) ==
  IF cell.cell_type = "code" THEN index + 1 ELSE index

\* index += 1, at the end of the loop body
IndexAfter(index, cell) == index + 1

\* the fixed metadata of the notebook
NotebookMetadata ==
  [kernelspec |-> [display_name |-> "Spark 2.0.0 - Scala 2.11",
                   language |-> "scala",
                   name |-> "spark2-scala"],
   language_info |-> [codemirror_mode |-> "text/x-scala",
                      file_extension |-> ".scala",
                      mimetype |-> "text/x-scala",
                      name |-> "scala",
                      pygments_lexer |-> "scala",
                      version |-> "2.11.8"]]

(***************************************************************************)
(* write_notebook                                                          *)
(***************************************************************************)
\* range(1, 1000) stops before this
ProbeStop == 1000

\* the i at which the loop would raise
RaiseAt == 1000

\* str(i) for a natural number i
RECURSIVE str(_)
str(i) ==
  IF i < 10 THEN <<Digits[i + 1]>> ELSE str(i \div 10) \o <<Digits[(i % 10) + 1]>>

Extension == <<".","i","p","y","n","b">>

\* notebook_name + '.ipynb'
PlainFile(name) == name \o Extension

\* notebook_name + ' (' + str(i) + ').ipynb'
VersionFile(name, i) == name \o <<" ", "(">> \o str(i) \o <<")">> \o Extension

\* ProbeBody, were the loop left at the first version that exists
ProbeBody_inverted(name, files, i) ==
  [filename |-> VersionFile(name, i),
   ends |-> IF VersionFile(name, i) \in files THEN "break"
            ELSE IF i = RaiseAt THEN "raise"
            ELSE "next"]

\* one pass of the body of the for loop: the filename it leaves, and how it
\* ends ("break", "raise", or "next" for the next pass)
ProbeBody(name, files, i) ==
  [filename |-> VersionFile(name, i),
   ends |-> IF VersionFile(name, i) \notin files THEN "break"
            ELSE IF i = RaiseAt THEN "raise"
            ELSE "next"]

\* the passes lo..hi of the loop in order, up to the first that does not end
\* "next" (the range is halved to keep the evaluation shallow)
RECURSIVE ProbeRange(_, _, _, _)
RECURSIVE ProbeRest(_, _, _, _, _)
\* the passes lo..hi after the earlier passes ended as left did
ProbeRest(name, files, left, lo, hi) ==
  IF left.ends # "next" THEN left ELSE ProbeRange(name, files, lo, hi)

ProbeRange(name, files, lo, hi) ==
  IF lo = hi THEN ProbeBody(name, files, lo)
  ELSE ProbeRest(name, files, ProbeRange(name, files, lo, (lo + hi) \div 2),
                 ((lo + hi) \div 2) + 1, hi)

\* what the for loop leaves: its raise, or the filename of its last pass
AfterLoop(loop) ==
  IF loop.ends = "raise" THEN [raised |-> "RuntimeError", filename |-> loop.filename]
  ELSE [raised |-> "none", filename |-> loop.filename]

\* the filename write_notebook opens, or the exception it raises
ChooseFilename(name, files, path) ==
  IF ~path.is_none /\ path.value # <<>> THEN [raised |-> "none", filename |-> path.value]
  ELSE IF PlainFile(name) \notin files THEN [raised |-> "none", filename |-> PlainFile(name)]
  ELSE AfterLoop(ProbeRange(name, files, 1, ProbeStop - 1))

\* open(filename, 'w') and nbformat.write: the file is created or replaced
WriteFile(files, name, notebook) ==
  [f \in (DOMAIN files) \cup {name} |-> IF f = name THEN notebook ELSE files[f]]

VARIABLES
  pc,              \* where the run is: "start", "loop", "write", "done", "error"
  zeppelin_note,   \* the parsed source document
  target_path,     \* args.output_file_path: [is_none, value]
  fs,              \* the files that exist: filename -> content
  notebook_name,   \* convert_parsed's notebook_name
  cells,           \* convert_parsed's cells
  index,           \* convert_parsed's index
  pos,             \* the paragraph the for loop is at
  origin,          \* for each cell of cells, the position of its paragraph
  content,         \* the notebook convert_parsed returned, EmptyDict before
  filename,        \* the filename write_notebook returned, <<>> before
  raised           \* the exception that ended the run, "none" otherwise

vars == <<pc, zeppelin_note, target_path, fs, notebook_name, cells, index, pos,
          origin, content, filename, raised>>

\* the state at the call of convert_json, for one input
InitFrom(Notes, FileSystems, Paths) ==
  /\ pc = "start"
  /\ zeppelin_note \in Notes
  /\ target_path \in Paths
  /\ fs \in FileSystems
  /\ notebook_name = <<>>
  /\ cells = <<>>
  /\ index = 0
  /\ pos = 1
  /\ origin = <<>>
  /\ content = EmptyDict
  /\ filename = <<>>
  /\ raised = "none"

\* an uncaught exception ends the run
Raise(exc) ==
  /\ pc' = "error"
  /\ raised' = exc

\* convert_parsed up to the for statement
ConvertBegin ==
  /\ pc = "start"
  /\ IF "name" \notin DOMAIN zeppelin_note THEN
       /\ Raise("KeyError")
       /\ UNCHANGED <<notebook_name, cells, index>>
     ELSE IF "paragraphs" \notin DOMAIN zeppelin_note THEN
       /\ Raise("KeyError")
       /\ notebook_name' = replace(zeppelin_note.name, "/", <<>>)
       /\ cells' = <<>>
       /\ index' = 0
     ELSE
       /\ pc' = "loop"
       /\ notebook_name' = replace(zeppelin_note.name, "/", <<>>)
       /\ cells' = <<>>
       /\ index' = 0
       /\ UNCHANGED raised
  /\ UNCHANGED <<zeppelin_note, target_path, fs, pos, origin, content, filename>>

\* the loop body for a paragraph with text: the cell is appended, its result
\* attached, and the index moves on
CellOf(paragraph, i) ==
  AttachResult(ClassifyCell(lstrip(paragraph.text, Whitespace), i), paragraph, i)

\* cells.append(cell) and what follows it, r being the cell with its result
EmitCell(r) ==
  /\ cells' = Append(cells, r.cell)
  /\ origin' = Append(origin, pos)
  /\ IF r.raised # "none" THEN
       /\ Raise(r.raised)
       /\ UNCHANGED <<index, pos>>
     ELSE
       /\ index' = IndexAfter(index, r.cell)
       /\ pos' = pos + 1
       /\ UNCHANGED <<pc, raised>>

\* one pass of the for loop's body
ConvertStep ==
  /\ pc = "loop"
  /\ pos <= Len(zeppelin_note.paragraphs)
  /\ IF ~Truthy(zeppelin_note.paragraphs[pos], "text") THEN
       /\ pos' = pos + 1
       /\ UNCHANGED <<pc, cells, index, origin, raised>>
     ELSE EmitCell(CellOf(zeppelin_note.paragraphs[pos], index))
  /\ UNCHANGED <<zeppelin_note, target_path, fs, notebook_name, content, filename>>

\* the end of the loop: the notebook is built and returned to __main__
ConvertReturn ==
  /\ pc = "loop"
  /\ pos > Len(zeppelin_note.paragraphs)
  /\ content' = [metadata |-> NotebookMetadata,
                 nbformat |-> 4,
                 nbformat_minor |-> 2,
                 cells |-> cells]
  /\ pc' = "write"
  /\ UNCHANGED <<zeppelin_note, target_path, fs, notebook_name, cells, index, pos,
                 origin, filename, raised>>

\* the end of write_notebook, r being the filename it chose or its raise
OpenAndWrite(r) ==
  IF r.raised # "none" THEN
    /\ Raise(r.raised)
    /\ UNCHANGED <<fs, filename>>
  ELSE
    /\ fs' = WriteFile(fs, r.filename, content)
    /\ filename' = r.filename
    /\ pc' = "done"
    /\ UNCHANGED raised

\* write_notebook(name, content, target_path), called from __main__
WriteNotebook ==
  /\ pc = "write"
  /\ OpenAndWrite(ChooseFilename(notebook_name, DOMAIN fs, target_path))
  /\ UNCHANGED <<zeppelin_note, target_path, notebook_name, cells, index, pos,
                 origin, content>>

Next == ConvertBegin \/ ConvertStep \/ ConvertReturn \/ WriteNotebook

(***************************************************************************)
(* The inputs of the runs that are checked.                                *)
(***************************************************************************)
SeqsUpTo(S, n) == UNION {[1..k -> S] : k \in 0..n}

\* a file that was there before the run
OldFile == [old |-> TRUE]

NoPath == [is_none |-> TRUE, value |-> <<>>]

GivenPath(p) == [is_none |-> FALSE, value |-> p]

NoteName == <<"n">>

OutPath == <<"o">>

\* the file system in which the versions S of NoteName's notebook exist (0 is
\* the plain name), and the files of Others
FileSystem(S, Others) ==
  LET names == {IF i = 0 THEN PlainFile(NoteName) ELSE VersionFile(NoteName, i) : i \in S}
  IN  [f \in names \cup Others |-> OldFile]

\* a paragraph is a dict with or without 'text' and 'result'
Paragraphs(Texts, Results) ==
  {EmptyDict}
    \cup {[text |-> t] : t \in Texts}
    \cup {[result |-> r] : r \in Results}
    \cup {[text |-> t, result |-> r] : t \in Texts, r \in Results}

\* the notes with at most n paragraphs of Pars, and the notes without 'name'
\* or without 'paragraphs'
NotesOf(Names, Pars, n) ==
  {[name |-> nm, paragraphs |-> ps] : nm \in Names, ps \in SeqsUpTo(Pars, n)}
    \cup {[name |-> nm] : nm \in Names}
    \cup {[paragraphs |-> <<>>]}

T_md == <<"%","m","d","\n","H">>

T_sql == <<"%","s","q","l"," ","s">>

T_foo == <<"%","f","o","o"," ","b">>

T_code == <<"p">>

T_blank == <<" ">>

R_text == [code |-> "SUCCESS", type |-> "TEXT", msg |-> <<"o">>]

R_html == [code |-> "SUCCESS", type |-> "HTML", msg |-> <<"<","i",">">>]

R_table == [code |-> "SUCCESS", type |-> "TABLE", msg |-> <<"a","\t","b","\n","1","\t","<">>]

R_table_empty == [code |-> "SUCCESS", type |-> "TABLE", msg |-> <<>>]

R_img == [code |-> "SUCCESS", type |-> "IMG", msg |-> <<"o">>]

R_notype == [code |-> "SUCCESS", msg |-> <<"o">>]

R_error == [code |-> "ERROR", type |-> "TEXT", msg |-> <<"o">>]

R_nocode == [type |-> "TEXT", msg |-> <<"o">>]

\* the paragraphs of the whole runs: every kind of result on a code text, and
\* the other kinds of text with and without a result
RunParagraphs ==
  {EmptyDict, [text |-> T_code], [text |-> T_md], [text |-> T_blank]}
    \cup {[text |-> T_code, result |-> r] :
            r \in {EmptyDict, R_text, R_html, R_table, R_table_empty, R_img,
                   R_notype, R_error, R_nocode}}
    \cup {[text |-> T_md, result |-> R_text],
          [text |-> T_foo, result |-> R_text],
          [text |-> T_sql, result |-> R_table],
          [text |-> <<>>, result |-> R_text]}

\* whole runs: notes of a few paragraphs, of every kind of text and result
Init ==
  InitFrom(NotesOf({NoteName}, RunParagraphs, MaxParagraphs),
           {FileSystem({0}, {})},
           {NoPath})

Spec == Init /\ [][Next]_vars

\* the notes of one paragraph
OneParagraph(Pars) == {[name |-> NoteName, paragraphs |-> <<p>>] : p \in Pars}

\* every text of at most MaxTextLen characters of these, and some longer ones
ClassifyAlphabet == {"%", "m", "d", " ", "\n", "x"}

LongTexts ==
  {T_sql, T_foo,
   <<"%","h","t","m","l","\t","h">>,
   <<"%","s","q","l","x"," ","y">>,
   <<"%","h","t","m","l">>,
   <<"%","s","q","l","\n">>,
   <<" ","\n","%","s","q","l"," ","s">>,
   <<"%","m","d","\n","\n","H","\n","d">>,
   <<"%","m","d","5"," ","x">>,
   <<"%","m","d"," ","%","m","d","\n">>}

\* runs that classify one text
InitClassify ==
  InitFrom(OneParagraph({[text |-> t] : t \in SeqsUpTo(ClassifyAlphabet, MaxTextLen) \cup LongTexts})
             \cup {[paragraphs |-> <<>>]},
           {FileSystem({}, {})},
           {NoPath})

SpecClassify == InitClassify /\ [][Next]_vars

\* every table text of at most MaxTsvLen characters of these, and the tables
\* of at most MaxRows body rows of some fields, tab- and newline-separated
TsvAlphabet == {"a", "\t", "\n", "\"", "\r", "<"}

F_html == <<"%","h","t","m","l"," ","<","b",">">>

F_sp_html == <<" ">> \o F_html

F_htmlx == <<"%","h","t","m","l","x">>

F_b == <<"<","b",">","x","<","/","b",">">>

F_amp == <<"&","'">>

TableRows ==
  {<<f>> : f \in {F_html, F_sp_html, F_htmlx, F_b, F_amp, <<"1">>}}
    \cup {<<<<"1">>, F_html>>, <<F_b, <<"2">>>>, <<F_html, F_sp_html>>}

Serialize(table) ==
  join(<<"\n">>, [r \in 1..Len(table) |-> join(<<"\t">>, table[r])])

TableTexts ==
  SeqsUpTo(TsvAlphabet, MaxTsvLen)
    \cup {Serialize(<<<<<<"a">>, F_b>>>> \o body) : body \in SeqsUpTo(TableRows, MaxRows)}

\* runs that render one table, the result of a code paragraph
InitTable ==
  InitFrom(OneParagraph({[text |-> T_code,
                          result |-> [code |-> "SUCCESS", type |-> "TABLE", msg |-> m]] :
                           m \in TableTexts})
             \cup {[paragraphs |-> <<>>]},
           {FileSystem({}, {})},
           {NoPath})

SpecTable == InitTable /\ [][Next]_vars

\* runs that write a notebook where versions of its file exist: the first k
\* of them, all but one of the last, any of the first few
PrefixVersions == {0..(k - 1) : k \in 0..ProbeStop}

NearFullVersions ==
  {(0..(ProbeStop - 1)) \ {j} : j \in (ProbeStop - 1 - MaxHole)..(ProbeStop - 1)}

SmallVersions == SUBSET (0..MaxHole)

WriteNotes == OneParagraph({[text |-> T_code]}) \cup {[paragraphs |-> <<>>]}

InitWrite ==
  \/ InitFrom(WriteNotes,
              {FileSystem(S, {}) : S \in PrefixVersions \cup NearFullVersions},
              {NoPath})
  \/ InitFrom(WriteNotes \cup {[name |-> <<"a","/","n">>, paragraphs |-> <<>>]},
              {FileSystem(S, O) : S \in SmallVersions, O \in {{}, {OutPath}}},
              {NoPath, GivenPath(<<>>), GivenPath(OutPath)})

SpecWrite == InitWrite /\ [][Next]_vars
(***************************************************************************)
(* The properties.  They are stated on the note and on what the run made   *)
(* of it, with definitions of their own for what the text of a property    *)
(* speaks of (a trimmed text, a directive, the records of a table).        *)
(***************************************************************************)
Pars == zeppelin_note.paragraphs

\* convert_parsed has returned its notebook
Returned == pc \in {"write", "done"}

\* the first place of s that holds no character of S, Len(s) + 1 if none does
FirstOutside(s, S) ==
  IF \A k \in 1..Len(s) : s[k] \in S THEN Len(s) + 1
  ELSE CHOOSE k \in 1..Len(s) : s[k] \notin S /\ \A j \in 1..(k - 1) : s[j] \in S

\* s without its leading characters of S
Without(s, S) == SubSeq(s, FirstOutside(s, S), Len(s))

Trimmed(t) == Without(t, Whitespace)

HasText(p) == "text" \in DOMAIN p /\ p.text # <<>>

HasTextAfterTrim(p) == "text" \in DOMAIN p /\ Trimmed(p.text) # <<>>

Increasing(seq) == \A j, k \in 1..Len(seq) : j < k => seq[j] < seq[k]

\* t starts with the token tok and a whitespace right after it
IsDirective(t, tok) ==
  /\ Len(t) > Len(tok)
  /\ \A k \in 1..Len(tok) : t[k] = tok[k]
  /\ t[Len(tok) + 1] \in Whitespace

\* t starts with '%', a word and a whitespace right after it
IsAnyDirective(t) ==
  /\ Len(t) >= 3
  /\ t[1] = "%"
  /\ t[2] \in WordChars
  /\ FirstOutside(Tail(t), WordChars) <= Len(t) - 1
  /\ Tail(t)[FirstOutside(Tail(t), WordChars)] \in Whitespace

TokMd == <<"%","m","d">>

TokSql == <<"%","s","q","l">>

TokHtml == <<"%","h","t","m","l">>

\* the paragraph's result is successful and of a recognized type
SuccessfulRecognized(p) ==
  /\ "result" \in DOMAIN p
  /\ "code" \in DOMAIN p.result
  /\ p.result.code = "SUCCESS"
  /\ "type" \in DOMAIN p.result
  /\ p.result.type \in {"TEXT", "HTML", "TABLE"}

HasOutput(cell) == "outputs" \in DOMAIN cell /\ cell.outputs # <<>>

\* the paragraphs that keep their cell: those with a non-empty text
Kept == {k \in 1..Len(Pars) : HasText(Pars[k])}

\* C1 as stated: the number of cells convert_parsed emits is the number of
\* paragraphs whose text is non-empty after trimming; a text that is empty
\* after trimming yields no cell.
C1_CellsAreTrimmedNonEmpty ==
  Returned =>
    Len(content.cells) = Cardinality({k \in 1..Len(Pars) : HasTextAfterTrim(Pars[k])})

\* C1 amended: the cells convert_parsed emits are, in order, those of the
\* paragraphs whose text is present and non-empty before trimming; a
\* whitespace-only text yields a cell, an absent or empty text yields none.
C1_CellsAreNonEmptyTexts ==
  Returned =>
    /\ Len(content.cells) = Cardinality(Kept)
    /\ Len(origin) = Len(content.cells)
    /\ {origin[j] : j \in 1..Len(origin)} = Kept
    /\ Increasing(origin)

\* C1: a finished run whose note has a whitespace-only text, a paragraph without text, and two cells
C1_Witness ==
  /\ pc = "done"
  /\ Len(content.cells) = 2
  /\ \E k \in 1..Len(Pars) : HasText(Pars[k]) /\ ~HasTextAfterTrim(Pars[k])
  /\ \E k \in 1..Len(Pars) : ~HasText(Pars[k])

\* C2: the execution index starts at 0, is raised by 1 by every emitted cell
\* of any variant and by no dropped paragraph: while convert_parsed loops and
\* when it has returned, the index is the number of cells emitted, the cells
\* are in paragraph order, and a code cell's execution_count is the number
\* of cells emitted before it.
C2_ExecutionIndex ==
  /\ pc = "start" => index = 0 /\ cells = <<>>
  /\ pc \in {"loop", "write", "done"} =>
       /\ index = Len(cells)
       /\ Increasing(origin)
       /\ \A k \in 1..Len(cells) :
            cells[k].cell_type = "code" => cells[k].execution_count = k - 1

\* C2: a finished run whose first paragraph was dropped, with a markdown or raw cell before a code cell
C2_Witness ==
  /\ pc = "done"
  /\ Len(Pars) = 3
  /\ ~HasText(Pars[1])
  /\ Len(content.cells) = 2
  /\ content.cells[1].cell_type \in {"markdown", "raw"}
  /\ content.cells[2].cell_type = "code"
  /\ content.cells[2].execution_count = 1

\* C3: an emitted cell carries an output record if and only if it is a code
\* cell and its paragraph has a result with code SUCCESS whose type is one of
\* TEXT, HTML, TABLE.
C3_OutputIffRecognized ==
  Returned =>
    \A k \in 1..Len(content.cells) :
      HasOutput(content.cells[k]) <=>
        (content.cells[k].cell_type = "code" /\ SuccessfulRecognized(Pars[origin[k]]))

\* the payload C8 states for a result
ExpectedPayload(result) ==
  IF result.type = "TEXT" THEN ("text/plain" :> result.msg)
  ELSE IF result.type = "HTML" THEN ("text/html" :> result.msg)
  ELSE ("text/html" :> table_to_html(result.msg).value)

\* C8: a code cell whose paragraph has a successful result of a recognized
\* type carries one output record, whose data holds exactly one payload:
\* text/plain = msg for TEXT, text/html = msg for HTML, text/html =
\* table_to_html(msg) for TABLE.
C8_Payload ==
  Returned =>
    \A k \in 1..Len(content.cells) :
      (content.cells[k].cell_type = "code" /\ SuccessfulRecognized(Pars[origin[k]])) =>
        /\ Len(content.cells[k].outputs) = 1
        /\ content.cells[k].outputs[1].data = ExpectedPayload(Pars[origin[k]].result)

\* C8: a finished run with the output of a TABLE result and of a TEXT result
C8_Witness ==
  /\ pc = "done"
  /\ \E k \in 1..Len(content.cells) :
       /\ Pars[origin[k]] = [text |-> T_code, result |-> R_table]
       /\ DOMAIN content.cells[k].outputs[1].data = {"text/html"}
  /\ \E k \in 1..Len(content.cells) :
       /\ Pars[origin[k]] = [text |-> T_code, result |-> R_text]
       /\ content.cells[k].outputs[1].data["text/plain"] = <<"o">>

\* the text of a paragraph makes a code cell
IsCodeText(t) ==
  /\ ~IsDirective(t, TokMd)
  /\ IsDirective(t, TokSql) \/ IsDirective(t, TokHtml) \/ ~IsAnyDirective(t)

MissingField == "name" \notin DOMAIN zeppelin_note \/ "paragraphs" \notin DOMAIN zeppelin_note

MalformedTable ==
  /\ "paragraphs" \in DOMAIN zeppelin_note
  /\ \E k \in 1..Len(Pars) :
       /\ HasText(Pars[k])
       /\ IsCodeText(Trimmed(Pars[k].text))
       /\ "result" \in DOMAIN Pars[k]
       /\ Pars[k].result = R_table_empty

\* C10: when the note lacks 'name' or 'paragraphs', or a code cell's
\* successful TABLE result has an empty msg, the run ends in an error: the
\* loop does not come to its end, no notebook is returned, write_notebook
\* is not reached, and no file is created or replaced.
C10_FailedConversionWritesNothing ==
  (MissingField \/ MalformedTable) =>
    /\ pc \in {"start", "loop", "error"}
    /\ pc = "error" => raised \in {"KeyError", "StopIteration"}
    /\ pc = "loop" => pos <= Len(Pars)
    /\ content = EmptyDict
    /\ filename = <<>>
    /\ \A f \in DOMAIN fs : fs[f] = OldFile

\* C10: a run ended by the StopIteration of an empty table, after three cells
C10_Witness ==
  /\ pc = "error"
  /\ raised = "StopIteration"
  /\ MalformedTable
  /\ Len(cells) = 3
  /\ fs = FileSystem({0}, {})

(***************************************************************************)
(* Classification of one text (SpecClassify)                               *)
(***************************************************************************)
\* the text of the paragraph that is classified, <<>> if there is none
TheText ==
  IF "paragraphs" \in DOMAIN zeppelin_note /\ Pars # <<>> /\ "text" \in DOMAIN Pars[1]
    THEN Pars[1].text ELSE <<>>

\* t after its first three characters
AfterToken(t) == SubSeq(t, 4, Len(t))

\* the markdown source as C4 states it: the token and the leading newline gone
MdSourceOneNewline(t) ==
  IF AfterToken(t)[1] = "\n" THEN Tail(AfterToken(t)) ELSE AfterToken(t)

\* the markdown source with the token and every leading newline gone
MdSourceAllNewlines(t) == Without(AfterToken(t), {"\n"})

\* the cell is the one the four rules give for the trimmed text t
FollowsRules(cell, t, md_source) ==
  IF IsDirective(t, TokMd) THEN
    cell.cell_type = "markdown" /\ cell.source = md_source
  ELSE IF IsDirective(t, TokSql) \/ IsDirective(t, TokHtml) THEN
    cell.cell_type = "code" /\ cell.source = <<"%">> \o t
  ELSE IF IsAnyDirective(t) THEN
    cell.cell_type = "raw" /\ cell.source = t /\ cell.metadata = [format |-> "text/plain"]
  ELSE
    cell.cell_type = "code" /\ cell.source = t /\ cell.metadata = [autoscroll |-> "auto"]

\* C4 as stated: the cell of a paragraph with non-empty text follows the four
\* rules, first match first, and a markdown cell's source is the trimmed
\* text without the directive token and without the leading newline.
C4_RulesOneNewline ==
  (Returned /\ TheText # <<>>) =>
    /\ Len(content.cells) = 1
    /\ FollowsRules(content.cells[1], Trimmed(TheText),
                    IF IsDirective(Trimmed(TheText), TokMd)
                      THEN MdSourceOneNewline(Trimmed(TheText)) ELSE <<>>)

\* C4 amended: the cell of a paragraph with non-empty text follows the four
\* rules, first match first, and a markdown cell's source is the trimmed
\* text without the directive token and without every newline that comes
\* right after the token.
C4_RulesAllNewlines ==
  (Returned /\ TheText # <<>>) =>
    /\ Len(content.cells) = 1
    /\ FollowsRules(content.cells[1], Trimmed(TheText),
                    IF IsDirective(Trimmed(TheText), TokMd)
                      THEN MdSourceAllNewlines(Trimmed(TheText)) ELSE <<>>)

\* C4: a finished run on a %md text with two newlines after the token
C4_Witness ==
  /\ pc = "done"
  /\ TheText = <<"%","m","d","\n","\n","H","\n","d">>
  /\ content.cells[1].cell_type = "markdown"
  /\ content.cells[1].source = <<"H","\n","d">>

(***************************************************************************)
(* Rendering of one table (SpecTable)                                      *)
(***************************************************************************)
\* the table text of the paragraph, <<>> if there is none
TheTsv ==
  IF "paragraphs" \in DOMAIN zeppelin_note /\ Pars # <<>> THEN Pars[1].result.msg ELSE <<>>

\* the HTML attached to the cell
TheHtml == content.cells[1].outputs[1].data["text/html"]

\* the places of sep in s, and the pieces of s between them
Places(s, sep) == {i \in 1..Len(s) : s[i] = sep}

NthPlace(s, sep, n) ==
  IF n = 0 THEN 0
  ELSE IF n > Cardinality(Places(s, sep)) THEN Len(s) + 1
  ELSE CHOOSE i \in Places(s, sep) : Cardinality({j \in Places(s, sep) : j < i}) = n - 1

Pieces(s, sep) ==
  [n \in 1..(Cardinality(Places(s, sep)) + 1) |->
     SubSeq(s, NthPlace(s, sep, n - 1) + 1, NthPlace(s, sep, n) - 1)]

\* the records of a table text without quotes and carriage returns: its
\* lines (a final newline ends the last line), each cut at its tabs; an
\* empty line is a record of no fields
ButLastEmpty(lines) ==
  IF lines[Len(lines)] = <<>> THEN SubSeq(lines, 1, Len(lines) - 1) ELSE lines

PlainRecords(tsv) ==
  [r \in 1..Len(ButLastEmpty(Pieces(tsv, "\n"))) |->
     IF ButLastEmpty(Pieces(tsv, "\n"))[r] = <<>> THEN <<>>
     ELSE Pieces(ButLastEmpty(Pieces(tsv, "\n"))[r], "\t")]

IsPlain(tsv) == \A i \in 1..Len(tsv) : tsv[i] \notin {"\"", "\r"}

\* the records of a table text: header first
Records(tsv) == IF IsPlain(tsv) THEN PlainRecords(tsv) ELSE csv_reader(tsv).rows

EscapedChar(c) ==
  CASE c = "&" -> <<"&","a","m","p",";">>
    [] c = "<" -> <<"&","l","t",";">>
    [] c = ">" -> <<"&","g","t",";">>
    [] c = "\"" -> <<"&","q","u","o","t",";">>
    [] c = "'" -> <<"&","#","x","2","7",";">>
    [] OTHER -> <<c>>

RECURSIVE Flat(_, _)
Flat(parts, n) == IF n = 0 THEN <<>> ELSE Flat(parts, n - 1) \o parts[n]

Escaped(field) == Flat([k \in 1..Len(field) |-> EscapedChar(field[k])], Len(field))

\* a body field as C7 states it: verbatim when, left-trimmed, it starts with
\* %html and a whitespace
FieldTrimmedRule(field) ==
  IF IsDirective(Trimmed(field), TokHtml) THEN field ELSE Escaped(field)

\* a body field, verbatim when it starts with %html and a whitespace itself
FieldPlainRule(field) ==
  IF IsDirective(field, TokHtml) THEN field ELSE Escaped(field)

Tagged(tag, inner) == <<"<">> \o tag \o <<">">> \o inner \o <<"<", "/">> \o tag \o <<">">>

HeaderPart(h) ==
  Tagged(<<"t","r">>, Flat([k \in 1..Len(h) |-> Tagged(<<"t","h">>, h[k])], Len(h)))

BodyPart(row, Field(_)) ==
  Tagged(<<"t","r">>, Flat([k \in 1..Len(row) |-> Tagged(<<"t","d">>, Field(row[k]))], Len(row)))

\* the n + 3 parts: '<table>', the header row, a row for each of the n body
\* records in their order, '</table>', with a newline before each but the first
PartsJoined(records, Field(_)) ==
  <<"<","t","a","b","l","e",">">>
    \o <<"\n">> \o HeaderPart(records[1])
    \o Flat([r \in 1..(Len(records) - 1) |-> <<"\n">> \o BodyPart(records[r + 1], Field)],
            Len(records) - 1)
    \o <<"\n">> \o <<"<","/","t","a","b","l","e",">">>

\* C7 as stated: every field of every body row is emitted verbatim if, when
\* left-trimmed, it starts with %html and a whitespace, and HTML-escaped
\* otherwise.
C7_VerbatimWhenTrimmedHtml ==
  (Returned /\ TheTsv # <<>>) => TheHtml = PartsJoined(Records(TheTsv), FieldTrimmedRule)

\* C7 amended: every field of every body row is emitted verbatim if it starts
\* with %html and a whitespace, with nothing before the %html (a field with
\* whitespace before the %html is escaped), and HTML-escaped otherwise.
C7_VerbatimWhenHtml ==
  (Returned /\ TheTsv # <<>>) => TheHtml = PartsJoined(Records(TheTsv), FieldPlainRule)

\* C7: a finished run on a table with a %html field and a field with a space before %html
C7_Witness ==
  /\ pc = "done"
  /\ TheTsv # <<>>
  /\ Len(Records(TheTsv)) = 3
  /\ Records(TheTsv)[2] = <<F_html, F_sp_html>>
  /\ Records(TheTsv)[3] = <<F_b>>
  /\ TheHtml = PartsJoined(Records(TheTsv), FieldPlainRule)
  /\ TheHtml # PartsJoined(Records(TheTsv), FieldTrimmedRule)

\* C9: for a non-empty table text with header record h and body records
\* r1..rn, table_to_html returns n + 3 parts joined by single newlines:
\* '<table>', the row of h with a <th> for each field, a row for each body
\* record in record order with a <td> for each field in field order,
\* '</table>'; and every non-empty text without a carriage return is
\* rendered.
C9_TableParts ==
  /\ (Returned /\ TheTsv # <<>>) =>
       TheHtml = PartsJoined(Records(TheTsv), table_cell_to_html)
  /\ (TheTsv # <<>> /\ \A i \in 1..Len(TheTsv) : TheTsv[i] # "\r") => pc # "error"

\* C9: a finished run on a table of a header and two body records of two fields
C9_Witness ==
  /\ pc = "done"
  /\ IsPlain(TheTsv)
  /\ Len(Records(TheTsv)) = 3
  /\ Len(Records(TheTsv)[1]) = 2
  /\ Len(Records(TheTsv)[3]) = 2
  /\ TheHtml = PartsJoined(Records(TheTsv), table_cell_to_html)

(***************************************************************************)
(* Naming of the file (SpecWrite)                                          *)
(***************************************************************************)
\* version 0 is '<name>.ipynb', version i is '<name> (i).ipynb'
VersionName(i) ==
  IF i = 0 THEN PlainFile(notebook_name) ELSE VersionFile(notebook_name, i)

\* the versions 0..999 that do not exist
FreeVersions == {i \in 0..(ProbeStop - 1) : VersionName(i) \notin DOMAIN fs}

Least(S) == CHOOSE i \in S : \A j \in S : i <= j

\* C5: called without an output path while some version of 0..999 does not
\* exist, write_notebook writes the version of the smallest such number; the
\* file did not exist before, and every file that existed is as it was.
C5_SmallestFreeVersion ==
  [][(pc = "write" /\ target_path.is_none /\ FreeVersions # {}) =>
       /\ pc' = "done"
       /\ filename' = VersionName(Least(FreeVersions))
       /\ filename' \notin DOMAIN fs
       /\ DOMAIN fs' = DOMAIN fs \cup {filename'}
       /\ fs'[filename'] = content
       /\ \A f \in DOMAIN fs : fs'[f] = fs[f]]_vars

\* C5: a finished run that wrote version 2 where versions 0, 1 and 3 exist
C5_Witness ==
  /\ pc = "done"
  /\ target_path.is_none
  /\ filename = VersionFile(NoteName, 2)
  /\ fs[filename] = content
  /\ \A i \in {0, 1, 3} : VersionName(i) \in DOMAIN fs /\ fs[VersionName(i)] = OldFile

\* C6: called without an output path while every version of 0..999 exists,
\* write_notebook fails with the naming-exhaustion error and writes no file.
C6_ExhaustionIsAnError ==
  [][(pc = "write" /\ target_path.is_none /\ FreeVersions = {}) =>
       /\ pc' = "error"
       /\ raised' = "RuntimeError"
       /\ fs' = fs]_vars
====
